---- MODULE Spec2Model ----
(***************************************************************************)
(* ladivic: mutex-guarded atomic variable operations (ldvc_atomic.hpp) and *)
(* asynchronous task execution with delay and timeout (ldvc_async.hpp).    *)
(***************************************************************************)
EXTENDS Integers, Sequences, FiniteSets, TLC

(***************************************************************************)
(* Bounds of the model.                                                    *)
(***************************************************************************)
NumThreads == 2
MaxCalls == 3
NumTasks == 2
MaxTimeouts == 1
MaxTime == 3
MaxBitOps == 3
MaxBlocks == 2
MaxSize == 2

(***************************************************************************)
(* The guarded value is instantiated at T = i8 (signed char).              *)
(***************************************************************************)
Width == 8

RECURSIVE Pow2(_)
Pow2(n) == IF n = 0 THEN 1 ELSE 2 * Pow2(n - 1)

TMod == Pow2(Width)
TMax == Pow2(Width - 1) - 1
TMin == 0 - Pow2(Width - 1)

\* conversion of an integer to T: two's complement wrap-around
Wrap(x) == ((x - TMin) % TMod) + TMin

\* the bit pattern of a T value, as a natural number below 2^Width
ToBits(x) == x % TMod

RECURSIVE BitAnd(_, _, _)
BitAnd(a, b, n) ==
    IF n = 0 THEN 0
    ELSE (IF a % 2 = 1 /\ b % 2 = 1 THEN 1 ELSE 0) + 2 * BitAnd(a \div 2, b \div 2, n - 1)

RECURSIVE BitOr(_, _, _)
BitOr(a, b, n) ==
    IF n = 0 THEN 0
    ELSE (IF a % 2 = 1 \/ b % 2 = 1 THEN 1 ELSE 0) + 2 * BitOr(a \div 2, b \div 2, n - 1)

RECURSIVE BitXor(_, _, _)
BitXor(a, b, n) ==
    IF n = 0 THEN 0
    ELSE (IF a % 2 # b % 2 THEN 1 ELSE 0) + 2 * BitXor(a \div 2, b \div 2, n - 1)

fetch_add(v, a) == Wrap(v + a)
fetch_sub(v, a) == Wrap(v - a)
\* fetch_and that stores the mask instead of combining it with the value
fetch_and_store(v, a) == a

fetch_and(v, a) == Wrap(BitAnd(ToBits(v), ToBits(a), Width))
fetch_or(v, a) == Wrap(BitOr(ToBits(v), ToBits(a), Width))
fetch_xor(v, a) == Wrap(BitXor(ToBits(v), ToBits(a), Width))

Threads == 1..NumThreads
Args == {1, TMax}
ArgOps == {"create", "inc", "dec", "and", "or", "xor", "exchange", "store"}
NoArgOps == {"delete", "load"}

VARIABLES
    value,      \* std::atomic<T>& var
    holder,     \* std::mutex& mutex: the thread that owns it, 0 when unlocked
    pc,         \* per thread: "idle", "lock", "crit", "unlock"
    op,         \* per thread: the ldvc_atomic_* function it is in
    arg,        \* per thread: the value / arg / new_value parameter
    ret,        \* per thread: <<r>> while the call is returning r, <<>> otherwise
    calls,      \* number of ldvc_atomic_* calls made so far
    applied,    \* sum of the deltas passed to inc (+) and dec (-)
    lastSet,    \* value passed to the latest create / store / exchange
    dirty,      \* var was modified by another operation since lastSet was set
    atLock      \* value of var when the holder acquired the mutex, 0 when unlocked

atomicVars == <<value, holder, pc, op, arg, ret, calls, applied, lastSet, dirty, atLock>>

VARIABLES
    kind,       \* per task: which ldvc_async_* call submitted it, "none" before
    fout,       \* per task: what f(args...) does when run: returns v or throws e
    dur,        \* per task: the delay / timeout parameter
    t0,         \* per task: time at which the sleeping thread was started
    spc,        \* per task: position of the submitting call
    wpc,        \* per task: position of the thread running f
    tpc,        \* per task: position of the timer thread (execute_with_timeout)
    st,         \* per task: shared state of the std::future / promise
    nset,       \* per task: number of times the shared state was made ready
    got,        \* per task: <<outcome>> once future.get() has returned
    dropped,    \* per task: the caller has destroyed the returned std::future
    terminated, \* std::terminate was called: the process is gone
    now         \* the clock

asyncVars == <<kind, fout, dur, t0, spc, wpc, tpc, st, nset, got, dropped, terminated, now>>

VARIABLES
    bwInit,     \* value of var before the bitwise operations
    bwOps,      \* the operations to apply: a sequence of <<function, mask>>
    bwDone,     \* indices of the operations applied so far, in the order applied
    bwVal       \* value of var after the operations applied so far

bitVars == <<bwInit, bwOps, bwDone, bwVal>>

VARIABLES
    outer,      \* per thread: it has locked the guard's mutex itself, outside ldvc_atomic_*
    thrown      \* per thread: a lock() of it has failed with std::system_error

reVars == <<outer, thrown>>

VARIABLES
    exValue,    \* std::atomic<i32> value of main()
    exHolder,   \* std::mutex mtx of main(): the thread that owns it, 0 when unlocked
    exPc,       \* per thread: position in thread_safe_increment / thread_safe_decrement
    exFn,       \* per thread: which of the two functions it runs
    exPrior,    \* per thread: the value its own inc / dec found in the variable
    exRet       \* per thread: <<r>> once the function has returned r

exVars == <<exValue, exHolder, exPc, exFn, exPrior, exRet>>

VARIABLES
    ipcHolder,  \* std::mutex& mtx of the IPC calls: the thread that owns it, 0 when unlocked
    ipcPc,      \* per thread: "idle", "lock", "crit"
    ipcFn,      \* per thread: the ldvc_*_ipc function of its current or latest call
    ipcSys,     \* per thread: "ok" / "fail": what the system call of its latest call did ("nokey": ftok failed)
    ipcRet,     \* per thread: <<r>> once the latest call has returned r
    ipcSeg,     \* the shared memory segment: "none", "live", "removed"
    ipcAtt,     \* per thread: the segment is attached
    ipcCalls    \* number of ldvc_*_ipc calls made so far

ipcVars == <<ipcHolder, ipcPc, ipcFn, ipcSys, ipcRet, ipcSeg, ipcAtt, ipcCalls>>

VARIABLES
    heap,       \* per block: [st, data, frees]: "unused" / "live" / "freed", its elements, times deleted
    memHeld,    \* number of times the caller has ldvc_mem_mutx locked
    memFn,      \* the ldvc_mem function of the current or latest call, "none" before
    memPc,      \* position of the caller inside the call, "idle" outside
    memPtr,     \* the ptr / object parameter: a block, or 0 for nullptr
    memSize,    \* the size / num parameter
    memNew,     \* the block operator new returned to the current call, 0 before
    memI,       \* the index i of the copy loop of ldvc_realloc
    memOld,     \* the elements the block passed to ldvc_realloc held at the call
    memRet,     \* <<r>> once the latest call has returned r or thrown r
    memFail,    \* operator new has failed in the latest call
    memCrashed  \* the process has crashed

memVars == <<heap, memHeld, memFn, memPc, memPtr, memSize, memNew, memI, memOld, memRet,
             memFail, memCrashed>>

\* the variables of the smaller components
restVars == <<exVars, ipcVars, memVars>>

vars == <<atomicVars, asyncVars, bitVars, reVars, restVars>>

\* what an ldvc_atomic_* call / an ldvc_async_* step leaves alone
nonAtomicVars == <<asyncVars, bitVars, reVars, restVars>>
nonAsyncVars == <<atomicVars, bitVars, reVars, restVars>>
nonBitVars == <<atomicVars, asyncVars, reVars, restVars>>
nonExVars == <<atomicVars, asyncVars, bitVars, reVars, ipcVars, memVars>>
nonIpcVars == <<atomicVars, asyncVars, bitVars, reVars, exVars, memVars>>
nonMemVars == <<atomicVars, asyncVars, bitVars, reVars, exVars, ipcVars>>

(***************************************************************************)
(* ldvc_atomic.hpp                                                         *)
(***************************************************************************)
\* a thread enters ldvc_atomic_<o>(var, mutex, a)
Call(t, o, a) ==
    /\ pc[t] = "idle"
    /\ calls < MaxCalls
    /\ pc' = [pc EXCEPT ![t] = "lock"]
    /\ op' = [op EXCEPT ![t] = o]
    /\ arg' = [arg EXCEPT ![t] = a]
    /\ ret' = [ret EXCEPT ![t] = <<>>]
    /\ calls' = calls + 1
    /\ UNCHANGED <<value, holder, applied, lastSet, dirty, atLock, nonAtomicVars>>

\* lock_guard_ctor that does not wait for the mutex to be free
lock_guard_ctor_nowait(t) ==
    /\ pc[t] = "lock"
    /\ holder' = t
    /\ pc' = [pc EXCEPT ![t] = "crit"]
    /\ atLock' = value
    /\ UNCHANGED <<value, op, arg, ret, calls, applied, lastSet, dirty, nonAtomicVars>>

\* the caller locks / unlocks the mutex it passes to ldvc_atomic_* itself
user_lock(t) ==
    /\ pc[t] = "idle"
    /\ holder = 0
    /\ ~outer[t]
    /\ holder' = t
    /\ outer' = [outer EXCEPT ![t] = TRUE]
    /\ UNCHANGED <<value, pc, op, arg, ret, calls, applied, lastSet, dirty, atLock, thrown,
                   asyncVars, bitVars, restVars>>

user_unlock(t) ==
    /\ pc[t] = "idle"
    /\ holder = t
    /\ outer[t]
    /\ holder' = 0
    /\ outer' = [outer EXCEPT ![t] = FALSE]
    /\ UNCHANGED <<value, pc, op, arg, ret, calls, applied, lastSet, dirty, atLock, thrown,
                   asyncVars, bitVars, restVars>>

\* std::mutex::lock() by the thread that owns the mutex is undefined: the
\* call deadlocks, or fails with std::system_error
\* (resource_deadlock_would_occur) where the implementation detects it
RelockOutcomes == {"deadlock", "system_error"}

\* lock_guard_ctor on a recursive mutex: the owner acquires it again
lock_guard_ctor_recursive(t, o) ==
    /\ pc[t] = "lock"
    /\ holder = t
    /\ pc' = [pc EXCEPT ![t] = "crit"]
    /\ atLock' = value
    /\ UNCHANGED <<value, holder, op, arg, ret, calls, applied, lastSet, dirty, outer, thrown,
                   asyncVars, bitVars, restVars>>

\* std::lock_guard<std::mutex> lock(mutex) in a thread that holds the mutex
lock_guard_ctor_relock(t, o) ==
    /\ pc[t] = "lock"
    /\ holder = t
    /\ IF o = "deadlock"
       THEN /\ pc' = [pc EXCEPT ![t] = "blocked"]
            /\ UNCHANGED <<op, arg, thrown>>
       ELSE /\ pc' = [pc EXCEPT ![t] = "idle"]
            /\ op' = [op EXCEPT ![t] = "none"]
            /\ arg' = [arg EXCEPT ![t] = 0]
            /\ thrown' = [thrown EXCEPT ![t] = TRUE]
    /\ UNCHANGED <<value, holder, ret, calls, applied, lastSet, dirty, atLock, outer,
                   asyncVars, bitVars, restVars>>

\* lock_guard_ctor on a mutex that is only ever granted to thread 1
lock_guard_ctor_first(t) ==
    /\ t = 1
    /\ pc[t] = "lock"
    /\ holder = 0
    /\ holder' = t
    /\ pc' = [pc EXCEPT ![t] = "crit"]
    /\ atLock' = value
    /\ UNCHANGED <<value, op, arg, ret, calls, applied, lastSet, dirty, nonAtomicVars>>

\* std::lock_guard<std::mutex> lock(mutex): blocks until the mutex is free
lock_guard_ctor(t) ==
    /\ pc[t] = "lock"
    /\ holder = 0
    /\ holder' = t
    /\ pc' = [pc EXCEPT ![t] = "crit"]
    /\ atLock' = value
    /\ UNCHANGED <<value, op, arg, ret, calls, applied, lastSet, dirty, nonAtomicVars>>

\* return from the function without unlocking the mutex
lock_guard_dtor_leak(t) ==
    /\ pc[t] = "unlock"
    /\ pc' = [pc EXCEPT ![t] = "idle"]
    /\ op' = [op EXCEPT ![t] = "none"]
    /\ arg' = [arg EXCEPT ![t] = 0]
    /\ ret' = [ret EXCEPT ![t] = <<>>]
    /\ UNCHANGED <<value, holder, atLock, calls, applied, lastSet, dirty, nonAtomicVars>>

\* end of scope of the lock_guard: the mutex is released and the call returns
lock_guard_dtor(t) ==
    /\ pc[t] = "unlock"
    /\ holder' = 0
    /\ atLock' = 0
    /\ pc' = [pc EXCEPT ![t] = "idle"]
    /\ op' = [op EXCEPT ![t] = "none"]
    /\ arg' = [arg EXCEPT ![t] = 0]
    /\ ret' = [ret EXCEPT ![t] = <<>>]
    /\ UNCHANGED <<value, calls, applied, lastSet, dirty, nonAtomicVars>>

\* Body of a function that has no lock_guard: it runs without the mutex
Body_unguarded(t, o) ==
    pc[t] \in {"lock", "crit"} /\ op[t] = o /\ pc' = [pc EXCEPT ![t] = "unlock"]

\* the statement after the lock_guard, run by the thread that holds the mutex
Body(t, o) == pc[t] = "crit" /\ op[t] = o /\ pc' = [pc EXCEPT ![t] = "unlock"]

ldvc_atomic_create(t) ==
    /\ Body(t, "create")
    /\ value' = arg[t]
    /\ lastSet' = arg[t]
    /\ dirty' = FALSE
    /\ UNCHANGED <<holder, op, arg, ret, calls, applied, atLock, nonAtomicVars>>

ldvc_atomic_delete(t) ==
    /\ Body(t, "delete")
    /\ value' = 0
    /\ dirty' = TRUE
    /\ UNCHANGED <<holder, op, arg, ret, calls, applied, lastSet, atLock, nonAtomicVars>>

\* ldvc_atomic_inc that ignores arg and adds 1
ldvc_atomic_inc_once(t) ==
    /\ Body(t, "inc")
    /\ value' = fetch_add(value, 1)
    /\ applied' = applied + arg[t]
    /\ dirty' = TRUE
    /\ UNCHANGED <<holder, op, arg, ret, calls, lastSet, atLock, nonAtomicVars>>

\* ldvc_atomic_inc that saturates at the maximum of T instead of wrapping
ldvc_atomic_inc_sat(t) ==
    /\ Body(t, "inc")
    /\ value' = IF value + arg[t] > TMax THEN TMax ELSE value + arg[t]
    /\ applied' = applied + arg[t]
    /\ dirty' = TRUE
    /\ UNCHANGED <<holder, op, arg, ret, calls, lastSet, atLock, nonAtomicVars>>

ldvc_atomic_inc(t) ==
    /\ Body(t, "inc")
    /\ value' = fetch_add(value, arg[t])
    /\ applied' = applied + arg[t]
    /\ dirty' = TRUE
    /\ UNCHANGED <<holder, op, arg, ret, calls, lastSet, atLock, nonAtomicVars>>

ldvc_atomic_dec(t) ==
    /\ Body(t, "dec")
    /\ value' = fetch_sub(value, arg[t])
    /\ applied' = applied - arg[t]
    /\ dirty' = TRUE
    /\ UNCHANGED <<holder, op, arg, ret, calls, lastSet, atLock, nonAtomicVars>>

ldvc_atomic_and(t) ==
    /\ Body(t, "and")
    /\ value' = fetch_and(value, arg[t])
    /\ dirty' = TRUE
    /\ UNCHANGED <<holder, op, arg, ret, calls, applied, lastSet, atLock, nonAtomicVars>>

ldvc_atomic_or(t) ==
    /\ Body(t, "or")
    /\ value' = fetch_or(value, arg[t])
    /\ dirty' = TRUE
    /\ UNCHANGED <<holder, op, arg, ret, calls, applied, lastSet, atLock, nonAtomicVars>>

ldvc_atomic_xor(t) ==
    /\ Body(t, "xor")
    /\ value' = fetch_xor(value, arg[t])
    /\ dirty' = TRUE
    /\ UNCHANGED <<holder, op, arg, ret, calls, applied, lastSet, atLock, nonAtomicVars>>

\* ldvc_atomic_exchange that returns the new value instead of the old one
ldvc_atomic_exchange_new(t) ==
    /\ Body(t, "exchange")
    /\ ret' = [ret EXCEPT ![t] = <<arg[t]>>]
    /\ value' = arg[t]
    /\ lastSet' = arg[t]
    /\ dirty' = FALSE
    /\ UNCHANGED <<holder, op, arg, calls, applied, atLock, nonAtomicVars>>

ldvc_atomic_exchange(t) ==
    /\ Body(t, "exchange")
    /\ ret' = [ret EXCEPT ![t] = <<value>>]
    /\ value' = arg[t]
    /\ lastSet' = arg[t]
    /\ dirty' = FALSE
    /\ UNCHANGED <<holder, op, arg, calls, applied, atLock, nonAtomicVars>>

ldvc_atomic_load(t) ==
    /\ Body(t, "load")
    /\ ret' = [ret EXCEPT ![t] = <<value>>]
    /\ UNCHANGED <<value, holder, op, arg, calls, applied, lastSet, dirty, atLock, nonAtomicVars>>

\* ldvc_atomic_store that merges the new value into the old one
ldvc_atomic_store_or(t) ==
    /\ Body(t, "store")
    /\ value' = fetch_or(value, arg[t])
    /\ lastSet' = arg[t]
    /\ dirty' = FALSE
    /\ UNCHANGED <<holder, op, arg, ret, calls, applied, atLock, nonAtomicVars>>

ldvc_atomic_store(t) ==
    /\ Body(t, "store")
    /\ value' = arg[t]
    /\ lastSet' = arg[t]
    /\ dirty' = FALSE
    /\ UNCHANGED <<holder, op, arg, ret, calls, applied, atLock, nonAtomicVars>>

NextAtomic ==
    \E t \in Threads :
        \/ \E o \in ArgOps, a \in Args : Call(t, o, a)
        \/ \E o \in NoArgOps : Call(t, o, 0)
        \/ lock_guard_ctor(t)
        \/ ldvc_atomic_create(t)
        \/ ldvc_atomic_delete(t)
        \/ ldvc_atomic_inc(t)
        \/ ldvc_atomic_dec(t)
        \/ ldvc_atomic_and(t)
        \/ ldvc_atomic_or(t)
        \/ ldvc_atomic_xor(t)
        \/ ldvc_atomic_exchange(t)
        \/ ldvc_atomic_load(t)
        \/ ldvc_atomic_store(t)
        \/ lock_guard_dtor(t)

(***************************************************************************)
(* ldvc_async.hpp                                                          *)
(***************************************************************************)
Tasks == 1..NumTasks
Durations == {1, 2}
RetVals == {"v1", "v2"}
Causes == {"e1"}

Value(v) == [k |-> "value", v |-> v]
Exc(e) == [k |-> "exc", v |-> e]
Empty == [k |-> "empty", v |-> ""]
\* std::runtime_error("Timeout")
TimedOut == Exc("Timeout")
\* std::future_error(broken_promise), stored by ~promise() in an unready state
BrokenPromise == Exc("broken_promise")

\* what a callable with a non-void result can do
FOutcomes == {Value(v) : v \in RetVals} \cup {Exc(e) : e \in Causes}
\* execute_with_timeout calls promise.set_value() without an argument, so
\* its result type is void
FVoidOutcomes == {Value("void")} \cup {Exc(e) : e \in Causes}

\* what an access to the destroyed promise can do
UBOutcomes == {"terminate", "noop", "write"}

\* the state of main() after ldvc_atomic_create(value, mtx, 0), before any
\* task is submitted
Init ==
    /\ value = 0
    /\ holder = 0
    /\ pc = [t \in Threads |-> "idle"]
    /\ op = [t \in Threads |-> "none"]
    /\ arg = [t \in Threads |-> 0]
    /\ ret = [t \in Threads |-> <<>>]
    /\ calls = 0
    /\ applied = 0
    /\ lastSet = value
    /\ dirty = FALSE
    /\ atLock = 0
    /\ kind = [k \in Tasks |-> "none"]
    /\ fout = [k \in Tasks |-> Empty]
    /\ dur = [k \in Tasks |-> 0]
    /\ t0 = [k \in Tasks |-> 0]
    /\ spc = [k \in Tasks |-> "none"]
    /\ wpc = [k \in Tasks |-> "none"]
    /\ tpc = [k \in Tasks |-> "none"]
    /\ st = [k \in Tasks |-> Empty]
    /\ nset = [k \in Tasks |-> 0]
    /\ got = [k \in Tasks |-> <<>>]
    /\ dropped = [k \in Tasks |-> FALSE]
    /\ terminated = FALSE
    /\ now = 0
    /\ bwInit = 0
    /\ bwOps = <<>>
    /\ bwDone = <<>>
    /\ outer = [t \in Threads |-> FALSE]
    /\ thrown = [t \in Threads |-> FALSE]
    /\ exValue = 0
    /\ exHolder = 0
    /\ exPc = [t \in Threads |-> "idle"]
    /\ exFn = [t \in Threads |-> "none"]
    /\ exPrior = [t \in Threads |-> 0]
    /\ exRet = [t \in Threads |-> <<>>]
    /\ ipcHolder = 0
    /\ ipcPc = [t \in Threads |-> "idle"]
    /\ ipcFn = [t \in Threads |-> "none"]
    /\ ipcSys = [t \in Threads |-> "none"]
    /\ ipcRet = [t \in Threads |-> <<>>]
    /\ ipcSeg = "none"
    /\ ipcAtt = [t \in Threads |-> FALSE]
    /\ ipcCalls = 0
    /\ heap = [b \in 1..MaxBlocks |-> [st |-> "unused", data |-> <<>>, frees |-> 0]]
    /\ memHeld = 0
    /\ memFn = "none"
    /\ memPc = "idle"
    /\ memPtr = 0
    /\ memSize = 0
    /\ memNew = 0
    /\ memI = 0
    /\ memOld = <<>>
    /\ memRet = <<>>
    /\ memFail = FALSE
    /\ memCrashed = FALSE
    /\ bwVal = 0

Ready(k) == st[k] # Empty

\* the submitting thread makes its calls one after the other
CanSubmit(k) ==
    /\ ~terminated
    /\ kind[k] = "none"
    /\ k > 1 => spc[k - 1] \in {"returned", "spawn_failed"}

ldvc_async_execute(k, o) ==
    /\ CanSubmit(k)
    /\ kind' = [kind EXCEPT ![k] = "execute"]
    /\ fout' = [fout EXCEPT ![k] = o]
    /\ spc' = [spc EXCEPT ![k] = "returned"]
    /\ wpc' = [wpc EXCEPT ![k] = "run"]
    /\ UNCHANGED <<dur, t0, tpc, st, nset, got, terminated, now, dropped, nonAsyncVars>>

\* the std::thread constructor throws std::system_error: no thread runs the
\* task, and the exception leaves ldvc_async_execute
ldvc_async_execute_spawn_fails(k) ==
    /\ CanSubmit(k)
    /\ kind' = [kind EXCEPT ![k] = "execute"]
    /\ spc' = [spc EXCEPT ![k] = "spawn_failed"]
    /\ UNCHANGED <<fout, dur, t0, wpc, tpc, st, nset, got, terminated, now, dropped, nonAsyncVars>>

\* packaged_task_run that stores a default value instead of f's result
packaged_task_run_default(k) ==
    /\ ~terminated
    /\ kind[k] = "execute"
    /\ wpc[k] = "run"
    /\ wpc' = [wpc EXCEPT ![k] = "done"]
    /\ st' = [st EXCEPT ![k] = IF fout[k].k = "value" THEN Value("v1") ELSE fout[k]]
    /\ nset' = [nset EXCEPT ![k] = @ + 1]
    /\ UNCHANGED <<kind, fout, dur, t0, spc, tpc, got, terminated, now, dropped, nonAsyncVars>>

\* packaged_task_run that lets an exception of f leave the thread function
packaged_task_run_uncaught(k) ==
    /\ ~terminated
    /\ kind[k] = "execute"
    /\ wpc[k] = "run"
    /\ wpc' = [wpc EXCEPT ![k] = "done"]
    /\ IF fout[k].k = "value"
       THEN /\ st' = [st EXCEPT ![k] = fout[k]]
            /\ nset' = [nset EXCEPT ![k] = @ + 1]
            /\ UNCHANGED terminated
       ELSE /\ terminated' = TRUE
            /\ UNCHANGED <<st, nset>>
    /\ UNCHANGED <<kind, fout, dur, t0, spc, tpc, got, now, dropped, nonAsyncVars>>

\* packaged_task_run of a task that is given up once its handle is discarded
packaged_task_run_if_held(k) ==
    /\ ~terminated
    /\ ~dropped[k]
    /\ kind[k] = "execute"
    /\ wpc[k] = "run"
    /\ wpc' = [wpc EXCEPT ![k] = "done"]
    /\ st' = [st EXCEPT ![k] = fout[k]]
    /\ nset' = [nset EXCEPT ![k] = @ + 1]
    /\ UNCHANGED <<kind, fout, dur, t0, spc, tpc, got, terminated, now, dropped, nonAsyncVars>>

\* std::packaged_task::operator(): f returns or throws, the outcome is stored
packaged_task_run(k) ==
    /\ ~terminated
    /\ kind[k] = "execute"
    /\ wpc[k] = "run"
    /\ wpc' = [wpc EXCEPT ![k] = "done"]
    /\ st' = [st EXCEPT ![k] = fout[k]]
    /\ nset' = [nset EXCEPT ![k] = @ + 1]
    /\ UNCHANGED <<kind, fout, dur, t0, spc, tpc, got, terminated, now, dropped, nonAsyncVars>>

\* std::async(std::launch::async, ...): the new thread sleeps from now on
ldvc_async_execute_with_delay(k, d, o) ==
    /\ CanSubmit(k)
    /\ kind' = [kind EXCEPT ![k] = "delay"]
    /\ fout' = [fout EXCEPT ![k] = o]
    /\ dur' = [dur EXCEPT ![k] = d]
    /\ t0' = [t0 EXCEPT ![k] = now]
    /\ spc' = [spc EXCEPT ![k] = "returned"]
    /\ wpc' = [wpc EXCEPT ![k] = "sleep"]
    /\ UNCHANGED <<tpc, st, nset, got, terminated, now, dropped, nonAsyncVars>>

\* delay_wake that calls f without waiting for the delay
delay_wake_nosleep(k) ==
    /\ ~terminated
    /\ kind[k] = "delay"
    /\ wpc[k] = "sleep"
    /\ wpc' = [wpc EXCEPT ![k] = "run"]
    /\ UNCHANGED <<kind, fout, dur, t0, spc, tpc, st, nset, got, terminated, now, dropped, nonAsyncVars>>

\* delay_wake of a timer that waits for the tasks submitted before it
delay_wake_in_order(k) ==
    /\ ~terminated
    /\ kind[k] = "delay"
    /\ wpc[k] = "sleep"
    /\ now >= t0[k] + dur[k]
    /\ \A j \in Tasks : (j < k /\ kind[j] = "delay") => wpc[j] # "sleep"
    /\ wpc' = [wpc EXCEPT ![k] = "run"]
    /\ UNCHANGED <<kind, fout, dur, t0, spc, tpc, st, nset, got, terminated, now, dropped, nonAsyncVars>>

\* std::this_thread::sleep_for(delay) returns, f is called
delay_wake(k) ==
    /\ ~terminated
    /\ kind[k] = "delay"
    /\ wpc[k] = "sleep"
    /\ now >= t0[k] + dur[k]
    /\ wpc' = [wpc EXCEPT ![k] = "run"]
    /\ UNCHANGED <<kind, fout, dur, t0, spc, tpc, st, nset, got, terminated, now, dropped, nonAsyncVars>>

\* f returns or throws, std::async's shared state is made ready
delay_run(k) ==
    /\ ~terminated
    /\ kind[k] = "delay"
    /\ wpc[k] = "run"
    /\ wpc' = [wpc EXCEPT ![k] = "done"]
    /\ st' = [st EXCEPT ![k] = fout[k]]
    /\ nset' = [nset EXCEPT ![k] = @ + 1]
    /\ UNCHANGED <<kind, fout, dur, t0, spc, tpc, got, terminated, now, dropped, nonAsyncVars>>

\* the promise is alive until the submitting call returns or is left by an
\* exception
PromiseAlive(k) == spc[k] \notin {"returned", "spawn_failed"}

\* promise.set_value() / promise.set_exception(): the first write on the live
\* promise makes the state ready, a later one throws std::future_error, which
\* leaves the thread function and ends in std::terminate; a write through
\* the dangling reference is undefined
promise_set(k, o) ==
    IF PromiseAlive(k)
    THEN IF st[k] = Empty
         THEN /\ st' = [st EXCEPT ![k] = o]
              /\ nset' = [nset EXCEPT ![k] = @ + 1]
              /\ UNCHANGED terminated
         ELSE /\ terminated' = TRUE
              /\ UNCHANGED <<st, nset>>
    ELSE \E u \in UBOutcomes :
            \/ /\ u = "terminate"
               /\ terminated' = TRUE
               /\ UNCHANGED <<st, nset>>
            \/ /\ u = "noop"
               /\ UNCHANGED <<st, nset, terminated>>
            \/ /\ u = "write"
               /\ st' = [st EXCEPT ![k] = o]
               /\ nset' = [nset EXCEPT ![k] = @ + 1]
               /\ UNCHANGED terminated

\* execute_with_timeout submissions are bounded separately
CanSubmitTimeout(k) == CanSubmit(k) /\ k <= MaxTimeouts

\* promise, future and the worker thread are created
timeout_begin(k, d, o) ==
    /\ CanSubmitTimeout(k)
    /\ kind' = [kind EXCEPT ![k] = "timeout"]
    /\ fout' = [fout EXCEPT ![k] = o]
    /\ dur' = [dur EXCEPT ![k] = d]
    /\ spc' = [spc EXCEPT ![k] = "worker"]
    /\ wpc' = [wpc EXCEPT ![k] = "run"]
    /\ UNCHANGED <<t0, tpc, st, nset, got, terminated, now, dropped, nonAsyncVars>>

\* the constructor of the worker's std::thread throws std::system_error
timeout_begin_spawn_fails(k) ==
    /\ CanSubmitTimeout(k)
    /\ kind' = [kind EXCEPT ![k] = "timeout"]
    /\ spc' = [spc EXCEPT ![k] = "spawn_failed"]
    /\ UNCHANGED <<fout, dur, t0, wpc, tpc, st, nset, got, terminated, now, dropped, nonAsyncVars>>

\* the constructor of the timer's std::thread throws std::system_error: the
\* exception leaves the function, which destroys result and promise while
\* the detached worker goes on
timeout_spawn_timer_fails(k) ==
    /\ ~terminated
    /\ spc[k] = "worker"
    /\ spc' = [spc EXCEPT ![k] = "spawn_failed"]
    /\ IF st[k] = Empty
       THEN /\ st' = [st EXCEPT ![k] = BrokenPromise]
            /\ nset' = [nset EXCEPT ![k] = @ + 1]
       ELSE UNCHANGED <<st, nset>>
    /\ UNCHANGED <<kind, fout, dur, t0, wpc, tpc, got, terminated, now, dropped, nonAsyncVars>>

\* the timer thread is created and sleeps from now on
timeout_spawn_timer(k) ==
    /\ ~terminated
    /\ spc[k] = "worker"
    /\ spc' = [spc EXCEPT ![k] = "timer"]
    /\ tpc' = [tpc EXCEPT ![k] = "sleep"]
    /\ t0' = [t0 EXCEPT ![k] = now]
    /\ UNCHANGED <<kind, fout, dur, wpc, st, nset, got, terminated, now, dropped, nonAsyncVars>>

\* timeout_return that joins the worker before it returns
timeout_return_join(k) ==
    /\ ~terminated
    /\ spc[k] = "timer"
    /\ wpc[k] = "done"
    /\ spc' = [spc EXCEPT ![k] = "returned"]
    /\ IF st[k] = Empty
       THEN /\ st' = [st EXCEPT ![k] = BrokenPromise]
            /\ nset' = [nset EXCEPT ![k] = @ + 1]
       ELSE UNCHANGED <<st, nset>>
    /\ UNCHANGED <<kind, fout, dur, t0, wpc, tpc, got, terminated, now, dropped, nonAsyncVars>>

\* return result: the local promise is destroyed, and an unready state is
\* made ready with broken_promise
timeout_return(k) ==
    /\ ~terminated
    /\ spc[k] = "timer"
    /\ spc' = [spc EXCEPT ![k] = "returned"]
    /\ IF st[k] = Empty
       THEN /\ st' = [st EXCEPT ![k] = BrokenPromise]
            /\ nset' = [nset EXCEPT ![k] = @ + 1]
       ELSE UNCHANGED <<st, nset>>
    /\ UNCHANGED <<kind, fout, dur, t0, wpc, tpc, got, terminated, now, dropped, nonAsyncVars>>

\* f(args...) returns or throws in the worker
worker_f_ends(k) ==
    /\ ~terminated
    /\ kind[k] = "timeout"
    /\ wpc[k] = "run"
    /\ wpc' = [wpc EXCEPT ![k] = "fin"]
    /\ UNCHANGED <<kind, fout, dur, t0, spc, tpc, st, nset, got, terminated, now, dropped, nonAsyncVars>>

\* the worker's promise.set_value() or promise.set_exception(current_exception)
worker_write(k) ==
    /\ ~terminated
    /\ kind[k] = "timeout"
    /\ wpc[k] = "fin"
    /\ wpc' = [wpc EXCEPT ![k] = "done"]
    /\ promise_set(k, fout[k])
    /\ UNCHANGED <<kind, fout, dur, t0, spc, tpc, got, now, dropped, nonAsyncVars>>

\* sleep_for(timeout) returns in the timer, which writes the timeout error
timer_fire(k) ==
    /\ ~terminated
    /\ tpc[k] = "sleep"
    /\ now >= t0[k] + dur[k]
    /\ tpc' = [tpc EXCEPT ![k] = "done"]
    /\ promise_set(k, TimedOut)
    /\ UNCHANGED <<kind, fout, dur, t0, spc, wpc, got, now, dropped, nonAsyncVars>>

\* future.get() by the caller: blocks until the state is ready
future_get(k) ==
    /\ ~terminated
    /\ spc[k] = "returned"
    /\ ~dropped[k]
    /\ got[k] = <<>>
    /\ Ready(k)
    /\ got' = [got EXCEPT ![k] = <<st[k]>>]
    /\ UNCHANGED <<kind, fout, dur, t0, spc, wpc, tpc, st, nset, terminated, now, dropped, nonAsyncVars>>

\* ~future() by a caller that never waited on the handle: the future that
\* std::async returned blocks in its destructor until the task has finished,
\* the futures of a packaged_task and of a promise do not
future_discard(k) ==
    /\ ~terminated
    /\ spc[k] = "returned"
    /\ ~dropped[k]
    /\ got[k] = <<>>
    /\ kind[k] = "delay" => Ready(k)
    /\ dropped' = [dropped EXCEPT ![k] = TRUE]
    /\ UNCHANGED <<kind, fout, dur, t0, spc, wpc, tpc, st, nset, got, terminated, now, nonAsyncVars>>

Tick ==
    /\ ~terminated
    /\ now < MaxTime
    /\ now' = now + 1
    /\ UNCHANGED <<kind, fout, dur, t0, spc, wpc, tpc, st, nset, got, terminated, dropped, nonAsyncVars>>

NextAsync ==
    \/ Tick
    \/ \E k \in Tasks :
        \/ \E o \in FOutcomes : ldvc_async_execute(k, o)
        \/ packaged_task_run(k)
        \/ \E d \in Durations, o \in FOutcomes : ldvc_async_execute_with_delay(k, d, o)
        \/ delay_wake(k)
        \/ delay_run(k)
        \/ future_get(k)
        \/ future_discard(k)

\* a delayed submission whose delay ends within the modelled time
delay_submit_in_time(k, d, o) ==
    /\ now + d <= MaxTime
    /\ ldvc_async_execute_with_delay(k, d, o)

\* one returning and one throwing f
FShortOutcomes == {Value("v1")} \cup {Exc(e) : e \in Causes}

\* the caller drops the handle of a task that may not have run yet
discard_pending(k) ==
    /\ kind[k] = "execute"
    /\ future_discard(k)

\* the steps of NextAsync without the waits on the handles, every delay
\* ending within the modelled time
NextAsyncInTime ==
    \/ Tick
    \/ \E k \in Tasks :
        \/ \E o \in FShortOutcomes : ldvc_async_execute(k, o)
        \/ packaged_task_run(k)
        \/ \E d \in Durations, o \in FShortOutcomes : delay_submit_in_time(k, d, o)
        \/ delay_wake(k)
        \/ delay_run(k)
        \/ discard_pending(k)

\* every started thread is scheduled again and again, and time passes
AsyncThreadStep(k) == packaged_task_run(k) \/ delay_wake(k) \/ delay_run(k)

FairAsync ==
    /\ WF_vars(Tick)
    /\ \A k \in Tasks : WF_vars(AsyncThreadStep(k))

NextTimeout ==
    \/ Tick
    \/ \E k \in Tasks :
        \/ \E d \in Durations, o \in FVoidOutcomes : timeout_begin(k, d, o)
        \/ timeout_spawn_timer(k)
        \/ timeout_return(k)
        \/ worker_f_ends(k)
        \/ worker_write(k)
        \/ timer_fire(k)
        \/ future_get(k)
        \/ future_discard(k)

\* submissions through ldvc_async_execute and ldvc_async_execute_with_timeout
\* in a process that can run out of threads
NextSpawn ==
    \/ Tick
    \/ \E k \in Tasks :
        \/ \E o \in FOutcomes : ldvc_async_execute(k, o)
        \/ ldvc_async_execute_spawn_fails(k)
        \/ packaged_task_run(k)
        \/ \E d \in Durations, o \in FVoidOutcomes : timeout_begin(k, d, o)
        \/ timeout_begin_spawn_fails(k)
        \/ timeout_spawn_timer(k)
        \/ timeout_spawn_timer_fails(k)
        \/ timeout_return(k)
        \/ worker_f_ends(k)
        \/ worker_write(k)
        \/ timer_fire(k)

\* tasks of all three kinds whose f returns, submitted by one thread that
\* keeps the handles
NextSubmit ==
    \/ Tick
    \/ \E k \in Tasks :
        \/ ldvc_async_execute(k, Value("v1"))
        \/ packaged_task_run(k)
        \/ \E d \in Durations : ldvc_async_execute_with_delay(k, d, Value("v1"))
        \/ delay_wake(k)
        \/ delay_run(k)
        \/ \E d \in Durations : timeout_begin(k, d, Value("void"))
        \/ timeout_spawn_timer(k)
        \/ timeout_return(k)
        \/ worker_f_ends(k)
        \/ worker_write(k)
        \/ timer_fire(k)

\* callers that only increment and decrement a guard created with value 0
NextIncDec ==
    \E t \in Threads :
        \/ \E a \in Args : Call(t, "inc", a)
        \/ \E a \in Args : Call(t, "dec", a)
        \/ lock_guard_ctor(t)
        \/ ldvc_atomic_inc(t)
        \/ ldvc_atomic_dec(t)
        \/ lock_guard_dtor(t)

(***************************************************************************)
(* ldvc_atomic_and / ldvc_atomic_or / ldvc_atomic_xor as functions of var  *)
(***************************************************************************)
\* var after var.store(a) and after var.exchange(a) on var = v
\* a store that keeps the bits already set
store_merge(v, a) == fetch_or(v, a)

store(v, a) == a

exchange(v, a) == a

BitKinds == {"and", "or", "xor"}
BitMasks == {1, 6}
BitInits == {0, 5}
BitCalls == BitKinds \X BitMasks
BitSeqs == UNION {[1..n -> BitCalls] : n \in 0..MaxBitOps}

\* var after ldvc_atomic_<o>(var, mutex, m) called with var = v
ApplyBit(o, m, v) ==
    CASE o = "and" -> fetch_and(v, m)
      [] o = "or" -> fetch_or(v, m)
      [] o = "xor" -> fetch_xor(v, m)
      [] o = "store" -> store(v, m)
      [] o = "exchange" -> exchange(v, m)

\* a fixed collection of bitwise calls on a var that holds bwInit
InitBitwise ==
    /\ value = 0
    /\ holder = 0
    /\ pc = [t \in Threads |-> "idle"]
    /\ op = [t \in Threads |-> "none"]
    /\ arg = [t \in Threads |-> 0]
    /\ ret = [t \in Threads |-> <<>>]
    /\ calls = 0
    /\ applied = 0
    /\ lastSet = 0
    /\ dirty = FALSE
    /\ atLock = 0
    /\ kind = [k \in Tasks |-> "none"]
    /\ fout = [k \in Tasks |-> Empty]
    /\ dur = [k \in Tasks |-> 0]
    /\ t0 = [k \in Tasks |-> 0]
    /\ spc = [k \in Tasks |-> "none"]
    /\ wpc = [k \in Tasks |-> "none"]
    /\ tpc = [k \in Tasks |-> "none"]
    /\ st = [k \in Tasks |-> Empty]
    /\ nset = [k \in Tasks |-> 0]
    /\ got = [k \in Tasks |-> <<>>]
    /\ dropped = [k \in Tasks |-> FALSE]
    /\ terminated = FALSE
    /\ now = 0
    /\ bwInit \in BitInits
    /\ bwOps \in BitSeqs
    /\ bwDone = <<>>
    /\ outer = [t \in Threads |-> FALSE]
    /\ thrown = [t \in Threads |-> FALSE]
    /\ exValue = 0
    /\ exHolder = 0
    /\ exPc = [t \in Threads |-> "idle"]
    /\ exFn = [t \in Threads |-> "none"]
    /\ exPrior = [t \in Threads |-> 0]
    /\ exRet = [t \in Threads |-> <<>>]
    /\ ipcHolder = 0
    /\ ipcPc = [t \in Threads |-> "idle"]
    /\ ipcFn = [t \in Threads |-> "none"]
    /\ ipcSys = [t \in Threads |-> "none"]
    /\ ipcRet = [t \in Threads |-> <<>>]
    /\ ipcSeg = "none"
    /\ ipcAtt = [t \in Threads |-> FALSE]
    /\ ipcCalls = 0
    /\ heap = [b \in 1..MaxBlocks |-> [st |-> "unused", data |-> <<>>, frees |-> 0]]
    /\ memHeld = 0
    /\ memFn = "none"
    /\ memPc = "idle"
    /\ memPtr = 0
    /\ memSize = 0
    /\ memNew = 0
    /\ memI = 0
    /\ memOld = <<>>
    /\ memRet = <<>>
    /\ memFail = FALSE
    /\ memCrashed = FALSE
    /\ bwVal = bwInit

StoreKinds == {"store", "exchange"}
MixCalls == (BitKinds \cup StoreKinds) \X BitMasks
MixInits == {5}
IsMixed(c) ==
    /\ \E i \in DOMAIN c : c[i][1] \in StoreKinds
    /\ \E i \in DOMAIN c : c[i][1] \in BitKinds
MixSeqs == {c \in UNION {[1..n -> MixCalls] : n \in 0..MaxBitOps} : IsMixed(c)}

\* a fixed collection of calls that mixes bitwise calls with store or
\* exchange, on a var that holds bwInit
InitMixed ==
    /\ value = 0
    /\ holder = 0
    /\ pc = [t \in Threads |-> "idle"]
    /\ op = [t \in Threads |-> "none"]
    /\ arg = [t \in Threads |-> 0]
    /\ ret = [t \in Threads |-> <<>>]
    /\ calls = 0
    /\ applied = 0
    /\ lastSet = 0
    /\ dirty = FALSE
    /\ atLock = 0
    /\ kind = [k \in Tasks |-> "none"]
    /\ fout = [k \in Tasks |-> Empty]
    /\ dur = [k \in Tasks |-> 0]
    /\ t0 = [k \in Tasks |-> 0]
    /\ spc = [k \in Tasks |-> "none"]
    /\ wpc = [k \in Tasks |-> "none"]
    /\ tpc = [k \in Tasks |-> "none"]
    /\ st = [k \in Tasks |-> Empty]
    /\ nset = [k \in Tasks |-> 0]
    /\ got = [k \in Tasks |-> <<>>]
    /\ dropped = [k \in Tasks |-> FALSE]
    /\ terminated = FALSE
    /\ now = 0
    /\ bwInit \in MixInits
    /\ bwOps \in MixSeqs
    /\ bwDone = <<>>
    /\ outer = [t \in Threads |-> FALSE]
    /\ thrown = [t \in Threads |-> FALSE]
    /\ exValue = 0
    /\ exHolder = 0
    /\ exPc = [t \in Threads |-> "idle"]
    /\ exFn = [t \in Threads |-> "none"]
    /\ exPrior = [t \in Threads |-> 0]
    /\ exRet = [t \in Threads |-> <<>>]
    /\ ipcHolder = 0
    /\ ipcPc = [t \in Threads |-> "idle"]
    /\ ipcFn = [t \in Threads |-> "none"]
    /\ ipcSys = [t \in Threads |-> "none"]
    /\ ipcRet = [t \in Threads |-> <<>>]
    /\ ipcSeg = "none"
    /\ ipcAtt = [t \in Threads |-> FALSE]
    /\ ipcCalls = 0
    /\ heap = [b \in 1..MaxBlocks |-> [st |-> "unused", data |-> <<>>, frees |-> 0]]
    /\ memHeld = 0
    /\ memFn = "none"
    /\ memPc = "idle"
    /\ memPtr = 0
    /\ memSize = 0
    /\ memNew = 0
    /\ memI = 0
    /\ memOld = <<>>
    /\ memRet = <<>>
    /\ memFail = FALSE
    /\ memCrashed = FALSE
    /\ bwVal = bwInit

\* the i-th call is the next one to get the mutex: it runs as a whole
bw_apply(i) ==
    /\ i \in DOMAIN bwOps
    /\ \A j \in DOMAIN bwDone : bwDone[j] # i
    /\ bwVal' = ApplyBit(bwOps[i][1], bwOps[i][2], bwVal)
    /\ bwDone' = Append(bwDone, i)
    /\ UNCHANGED <<bwInit, bwOps, nonBitVars>>

NextBitwise == \E i \in 1..MaxBitOps : bw_apply(i)

\* concurrent callers of the whole family that all pass 1
NextAtomicOne ==
    \E t \in Threads :
        \/ \E o \in ArgOps : Call(t, o, 1)
        \/ \E o \in NoArgOps : Call(t, o, 0)
        \/ lock_guard_ctor(t)
        \/ ldvc_atomic_create(t)
        \/ ldvc_atomic_delete(t)
        \/ ldvc_atomic_inc(t)
        \/ ldvc_atomic_dec(t)
        \/ ldvc_atomic_and(t)
        \/ ldvc_atomic_or(t)
        \/ ldvc_atomic_xor(t)
        \/ ldvc_atomic_exchange(t)
        \/ ldvc_atomic_load(t)
        \/ ldvc_atomic_store(t)
        \/ lock_guard_dtor(t)

\* callers that may hold the mutex themselves when they call ldvc_atomic_*
NextReentrant ==
    \E t \in Threads :
        \/ user_lock(t)
        \/ user_unlock(t)
        \/ \E o \in ArgOps : Call(t, o, 1)
        \/ \E o \in NoArgOps : Call(t, o, 0)
        \/ lock_guard_ctor(t)
        \/ \E o \in RelockOutcomes : lock_guard_ctor_relock(t, o)
        \/ ldvc_atomic_create(t)
        \/ ldvc_atomic_delete(t)
        \/ ldvc_atomic_inc(t)
        \/ ldvc_atomic_dec(t)
        \/ ldvc_atomic_and(t)
        \/ ldvc_atomic_or(t)
        \/ ldvc_atomic_xor(t)
        \/ ldvc_atomic_exchange(t)
        \/ ldvc_atomic_load(t)
        \/ ldvc_atomic_store(t)
        \/ lock_guard_dtor(t)

\* the steps of thread t inside an ldvc_atomic_* call
ThreadStep(t) ==
    \/ lock_guard_ctor(t)
    \/ ldvc_atomic_create(t)
    \/ ldvc_atomic_delete(t)
    \/ ldvc_atomic_inc(t)
    \/ ldvc_atomic_dec(t)
    \/ ldvc_atomic_and(t)
    \/ ldvc_atomic_or(t)
    \/ ldvc_atomic_xor(t)
    \/ ldvc_atomic_exchange(t)
    \/ ldvc_atomic_load(t)
    \/ ldvc_atomic_store(t)
    \/ lock_guard_dtor(t)

\* a thread that can take a step inside its call eventually takes one: the
\* scheduler runs every runnable thread, and a free mutex is granted
FairAtomic == \A t \in Threads : WF_vars(ThreadStep(t))

(***************************************************************************)
(* examples/async_example.cpp: thread_safe_increment, thread_safe_decrement *)
(***************************************************************************)
\* ldvc_async_execute(thread_safe_increment / thread_safe_decrement, mtx, value):
\* thread t starts to run f and asks for the mutex of its first call
thread_safe_start(t, f) ==
    /\ exPc[t] = "idle"
    /\ exFn' = [exFn EXCEPT ![t] = f]
    /\ exPc' = [exPc EXCEPT ![t] = "op_lock"]
    /\ UNCHANGED <<exValue, exHolder, exPrior, exRet, nonExVars>>

\* the lock_guard of ldvc_atomic_inc / ldvc_atomic_dec gets the mutex
thread_safe_op_lock(t) ==
    /\ exPc[t] = "op_lock"
    /\ exHolder = 0
    /\ exHolder' = t
    /\ exPc' = [exPc EXCEPT ![t] = "op_crit"]
    /\ UNCHANGED <<exValue, exFn, exPrior, exRet, nonExVars>>

\* ldvc_atomic_inc(value, mtx, 1) does its fetch_add and returns, which
\* releases the mutex; the thread then asks for it again in ldvc_atomic_load
thread_safe_increment(t) ==
    /\ exPc[t] = "op_crit"
    /\ exFn[t] = "inc"
    /\ exPrior' = [exPrior EXCEPT ![t] = exValue]
    /\ exValue' = fetch_add(exValue, 1)
    /\ exHolder' = 0
    /\ exPc' = [exPc EXCEPT ![t] = "load_lock"]
    /\ UNCHANGED <<exFn, exRet, nonExVars>>

\* ldvc_atomic_dec(value, mtx, 1), likewise
thread_safe_decrement(t) ==
    /\ exPc[t] = "op_crit"
    /\ exFn[t] = "dec"
    /\ exPrior' = [exPrior EXCEPT ![t] = exValue]
    /\ exValue' = fetch_sub(exValue, 1)
    /\ exHolder' = 0
    /\ exPc' = [exPc EXCEPT ![t] = "load_lock"]
    /\ UNCHANGED <<exFn, exRet, nonExVars>>

\* the lock_guard of ldvc_atomic_load gets the mutex
thread_safe_load_lock(t) ==
    /\ exPc[t] = "load_lock"
    /\ exHolder = 0
    /\ exHolder' = t
    /\ exPc' = [exPc EXCEPT ![t] = "load_crit"]
    /\ UNCHANGED <<exValue, exFn, exPrior, exRet, nonExVars>>

\* return ldvc_atomic_load(value, mtx): the function returns what it loads
thread_safe_load(t) ==
    /\ exPc[t] = "load_crit"
    /\ exRet' = [exRet EXCEPT ![t] = <<exValue>>]
    /\ exHolder' = 0
    /\ exPc' = [exPc EXCEPT ![t] = "done"]
    /\ UNCHANGED <<exValue, exFn, exPrior, nonExVars>>

NextExample ==
    \E t \in Threads :
        \/ \E f \in {"inc", "dec"} : thread_safe_start(t, f)
        \/ thread_safe_op_lock(t)
        \/ thread_safe_increment(t)
        \/ thread_safe_decrement(t)
        \/ thread_safe_load_lock(t)
        \/ thread_safe_load(t)

(***************************************************************************)
(* ldvc_ipc.hpp                                                            *)
(***************************************************************************)
IpcFns == {"create", "attach", "detach", "destroy"}

\* the identifier shmget gives to the segment
Shmid == 1

\* conversion of an int to the u8 (unsigned char) that ldvc_detach_ipc returns
ToU8(x) == x % 256

\* what the system call of function fn can do in the current state: failure
\* is always possible, success needs the object the call works on
SysOutcomes(t, fn) ==
    {"fail"} \cup
    (CASE fn = "create" -> {"ok"}
       [] fn = "attach" -> IF ipcSeg = "live" /\ ~ipcAtt[t] THEN {"ok"} ELSE {}
       [] fn = "detach" -> IF ipcAtt[t] THEN {"ok"} ELSE {}
       [] fn = "destroy" -> IF ipcSeg = "live" THEN {"ok"} ELSE {})

\* a thread enters ldvc_<fn>_ipc
ipc_call(t, fn) ==
    /\ ipcPc[t] = "idle"
    /\ ipcCalls < MaxCalls
    /\ ipcCalls' = ipcCalls + 1
    /\ ipcPc' = [ipcPc EXCEPT ![t] = "lock"]
    /\ ipcFn' = [ipcFn EXCEPT ![t] = fn]
    /\ ipcSys' = [ipcSys EXCEPT ![t] = "none"]
    /\ ipcRet' = [ipcRet EXCEPT ![t] = <<>>]
    /\ UNCHANGED <<ipcHolder, ipcSeg, ipcAtt, nonIpcVars>>

\* std::lock_guard<std::mutex> lock(mtx)
ipc_lock(t) ==
    /\ ipcPc[t] = "lock"
    /\ ipcHolder = 0
    /\ ipcHolder' = t
    /\ ipcPc' = [ipcPc EXCEPT ![t] = "crit"]
    /\ UNCHANGED <<ipcFn, ipcSys, ipcRet, ipcSeg, ipcAtt, ipcCalls, nonIpcVars>>

\* the return statement: the result is handed to the caller and the
\* lock_guard releases the mutex
ipc_return(t, sys, r) ==
    /\ ipcSys' = [ipcSys EXCEPT ![t] = sys]
    /\ ipcRet' = [ipcRet EXCEPT ![t] = <<r>>]
    /\ ipcHolder' = 0
    /\ ipcPc' = [ipcPc EXCEPT ![t] = "idle"]

\* ldvc_create_ipc that calls shmget with whatever ftok returned
ldvc_create_ipc_unchecked(t, key, sys) ==
    /\ ipcPc[t] = "crit"
    /\ ipcFn[t] = "create"
    /\ sys \in SysOutcomes(t, "create")
    /\ ipc_return(t, IF key = "fail" THEN "nokey" ELSE sys, IF sys = "ok" THEN Shmid ELSE -1)
    /\ ipcSeg' = IF sys = "ok" THEN "live" ELSE ipcSeg
    /\ UNCHANGED <<ipcFn, ipcAtt, ipcCalls, nonIpcVars>>

\* ftok, then shmget unless ftok failed ("nokey": shmget was not called)
ldvc_create_ipc(t, key, sys) ==
    /\ ipcPc[t] = "crit"
    /\ ipcFn[t] = "create"
    /\ IF key = "fail"
       THEN /\ ipc_return(t, "nokey", -1)
            /\ UNCHANGED ipcSeg
       ELSE /\ sys \in SysOutcomes(t, "create")
            /\ ipc_return(t, sys, IF sys = "ok" THEN Shmid ELSE -1)
            /\ ipcSeg' = IF sys = "ok" THEN "live" ELSE ipcSeg
    /\ UNCHANGED <<ipcFn, ipcAtt, ipcCalls, nonIpcVars>>

\* shmat
ldvc_attach_ipc(t, sys) ==
    /\ ipcPc[t] = "crit"
    /\ ipcFn[t] = "attach"
    /\ sys \in SysOutcomes(t, "attach")
    /\ ipc_return(t, sys, IF sys = "ok" THEN "ptr" ELSE "nullptr")
    /\ ipcAtt' = [ipcAtt EXCEPT ![t] = @ \/ sys = "ok"]
    /\ UNCHANGED <<ipcFn, ipcSeg, ipcCalls, nonIpcVars>>

\* shmdt: return -1 or return 0, converted to the u8 return type
ldvc_detach_ipc(t, sys) ==
    /\ ipcPc[t] = "crit"
    /\ ipcFn[t] = "detach"
    /\ sys \in SysOutcomes(t, "detach")
    /\ ipc_return(t, sys, ToU8(IF sys = "fail" THEN -1 ELSE 0))
    /\ ipcAtt' = [ipcAtt EXCEPT ![t] = @ /\ sys = "fail"]
    /\ UNCHANGED <<ipcFn, ipcSeg, ipcCalls, nonIpcVars>>

\* return shmctl(shmid, IPC_RMID, nullptr) == -1
ldvc_destroy_ipc(t, sys) ==
    /\ ipcPc[t] = "crit"
    /\ ipcFn[t] = "destroy"
    /\ sys \in SysOutcomes(t, "destroy")
    /\ ipc_return(t, sys, (IF sys = "fail" THEN -1 ELSE 0) = -1)
    /\ ipcSeg' = IF sys = "ok" THEN "removed" ELSE ipcSeg
    /\ UNCHANGED <<ipcFn, ipcAtt, ipcCalls, nonIpcVars>>

NextIpc ==
    \E t \in Threads :
        \/ \E fn \in IpcFns : ipc_call(t, fn)
        \/ ipc_lock(t)
        \/ \E key, sys \in {"ok", "fail"} : ldvc_create_ipc(t, key, sys)
        \/ \E sys \in {"ok", "fail"} : ldvc_attach_ipc(t, sys)
        \/ \E sys \in {"ok", "fail"} : ldvc_detach_ipc(t, sys)
        \/ \E sys \in {"ok", "fail"} : ldvc_destroy_ipc(t, sys)

(***************************************************************************)
(* ldvc_mem.hpp                                                            *)
(***************************************************************************)
Blocks == 1..MaxBlocks
Sizes == 0..MaxSize
ElemVals == {0, 7}
MemFns == {"malloc", "calloc", "realloc", "free"}

\* nullptr, and the (int*) -1 of ldvc_malloc
NullPtr == 0
Sentinel == -1

LiveBlocks == {b \in Blocks : heap[b].st = "live"}
UnusedBlocks == {b \in Blocks : heap[b].st = "unused"}

\* what a call hands to its caller: a pointer, nothing, or std::bad_alloc
RetPtr(q) == [k |-> "ptr", p |-> q]
RetVoid == [k |-> "void", p |-> 0]
RetBadAlloc == [k |-> "bad_alloc", p |-> 0]

\* ::operator new either returns storage or throws std::bad_alloc
NewOutcomes == {"ok", "bad_alloc"}

\* a read of ptr[i] past the end of the old block is undefined: it yields
\* whatever lies behind the block, or the process crashes
ReadOutcomes == {"garbage", "crash"}

\* mem_call of an ldvc_calloc / ldvc_realloc that locks ldvc_mem_mutx itself
\* before it calls ldvc_malloc
mem_call_locked(fn, b, n) ==
    /\ ~memCrashed
    /\ memPc = "idle"
    /\ b \in {NullPtr} \cup LiveBlocks
    /\ fn \in {"malloc", "calloc"} => b = NullPtr
    /\ fn = "free" => n = 0
    /\ memFn' = fn
    /\ memPtr' = b
    /\ memSize' = n
    /\ memNew' = NullPtr
    /\ memI' = 0
    /\ memOld' = IF b = NullPtr THEN <<>> ELSE heap[b].data
    /\ memRet' = <<>>
    /\ memFail' = FALSE
    /\ memPc' = IF fn = "free" THEN "f_lock" ELSE "m_lock"
    /\ memHeld' = IF fn \in {"calloc", "realloc"} THEN memHeld + 1 ELSE memHeld
    /\ UNCHANGED <<heap, memCrashed, nonMemVars>>

\* the caller enters one of the four functions; ptr is nullptr or a block
\* it owns
mem_call(fn, b, n) ==
    /\ ~memCrashed
    /\ memPc = "idle"
    /\ b \in {NullPtr} \cup LiveBlocks
    /\ fn \in {"malloc", "calloc"} => b = NullPtr
    /\ fn = "free" => n = 0
    /\ memFn' = fn
    /\ memPtr' = b
    /\ memSize' = n
    /\ memNew' = NullPtr
    /\ memI' = 0
    /\ memOld' = IF b = NullPtr THEN <<>> ELSE heap[b].data
    /\ memRet' = <<>>
    /\ memFail' = FALSE
    /\ memPc' = IF fn = "free" THEN "f_lock" ELSE "m_lock"
    /\ UNCHANGED <<heap, memHeld, memCrashed, nonMemVars>>

\* ldvc_malloc: const std::lock_guard<std::mutex> lock(ldvc_mem_mutx)
ldvc_malloc_lock ==
    /\ ~memCrashed
    /\ memPc = "m_lock"
    /\ memHeld = 0
    /\ memHeld' = memHeld + 1
    /\ memPc' = "m_new"
    /\ UNCHANGED <<heap, memFn, memPtr, memSize, memNew, memI, memOld, memRet, memFail,
                   memCrashed, nonMemVars>>

\* what ldvc_malloc returns for the pointer q that operator new returned
MallocReturn(q) == IF q = NullPtr THEN Sentinel ELSE q

\* ldvc_malloc: ::operator new(size * sizeof(T)), the test of ptr and the
\* return, which releases the mutex; the storage is not initialised; an
\* exception leaves ldvc_malloc and its caller ldvc_calloc / ldvc_realloc
operator_new(o, d) ==
    /\ ~memCrashed
    /\ memPc = "m_new"
    /\ memHeld' = memHeld - 1
    /\ IF o = "ok"
       THEN /\ UnusedBlocks # {}
            /\ d \in [1..memSize -> ElemVals]
            /\ LET b == CHOOSE c \in UnusedBlocks : \A e \in UnusedBlocks : c <= e
               IN /\ heap' = [heap EXCEPT ![b] = [st |-> "live", data |-> d, frees |-> 0]]
                  /\ memNew' = MallocReturn(b)
                  /\ IF memFn = "malloc"
                     THEN /\ memRet' = <<RetPtr(MallocReturn(b))>>
                          /\ memPc' = "idle"
                     ELSE /\ memPc' = IF memFn = "calloc" THEN "c_zero" ELSE "r_test"
                          /\ UNCHANGED memRet
            /\ UNCHANGED memFail
       ELSE /\ d = <<>>
            /\ memFail' = TRUE
            /\ memRet' = <<RetBadAlloc>>
            /\ memPc' = "idle"
            /\ UNCHANGED <<heap, memNew>>
    /\ UNCHANGED <<memFn, memPtr, memSize, memI, memOld, memCrashed, nonMemVars>>

\* ldvc_calloc: if(ptr != nullptr) every element is set to T(); return ptr
ldvc_calloc_zero ==
    /\ ~memCrashed
    /\ memPc = "c_zero"
    /\ IF memNew # NullPtr
       THEN heap' = [heap EXCEPT ![memNew].data = [i \in 1..memSize |-> 0]]
       ELSE UNCHANGED heap
    /\ memRet' = <<RetPtr(memNew)>>
    /\ memPc' = "idle"
    /\ UNCHANGED <<memHeld, memFn, memPtr, memSize, memNew, memI, memOld, memFail,
                   memCrashed, nonMemVars>>

\* ldvc_realloc: if(ptr != nullptr) the copy loop starts, else return new_ptr
ldvc_realloc_test ==
    /\ ~memCrashed
    /\ memPc = "r_test"
    /\ IF memPtr # NullPtr
       THEN /\ memPc' = "r_copy"
            /\ memI' = 0
            /\ UNCHANGED memRet
       ELSE /\ memPc' = "idle"
            /\ memRet' = <<RetPtr(memNew)>>
            /\ UNCHANGED memI
    /\ UNCHANGED <<heap, memHeld, memFn, memPtr, memSize, memNew, memOld, memFail,
                   memCrashed, nonMemVars>>

\* ldvc_realloc: one round of for(i = 0; i < size; ++i) new_ptr[i] = ptr[i],
\* or the end of the loop and the call of ldvc_free(ptr)
ldvc_realloc_copy(u, v) ==
    /\ ~memCrashed
    /\ memPc = "r_copy"
    /\ IF memI < memSize
       THEN IF memI < Len(heap[memPtr].data)
            THEN /\ u = "garbage" /\ v = 0
                 /\ heap' = [heap EXCEPT ![memNew].data[memI + 1] = heap[memPtr].data[memI + 1]]
                 /\ memI' = memI + 1
                 /\ UNCHANGED <<memPc, memCrashed>>
            ELSE IF u = "garbage"
                 THEN /\ heap' = [heap EXCEPT ![memNew].data[memI + 1] = v]
                      /\ memI' = memI + 1
                      /\ UNCHANGED <<memPc, memCrashed>>
                 ELSE /\ v = 0
                      /\ memCrashed' = TRUE
                      /\ UNCHANGED <<heap, memI, memPc>>
       ELSE /\ u = "garbage" /\ v = 0
            /\ memPc' = "f_lock"
            /\ UNCHANGED <<heap, memI, memCrashed>>
    /\ UNCHANGED <<memHeld, memFn, memPtr, memSize, memNew, memOld, memRet, memFail,
                   nonMemVars>>

\* ldvc_free: const std::lock_guard<std::mutex> lock(ldvc_mem_mutx)
ldvc_free_lock ==
    /\ ~memCrashed
    /\ memPc = "f_lock"
    /\ memHeld = 0
    /\ memHeld' = memHeld + 1
    /\ memPc' = "f_del"
    /\ UNCHANGED <<heap, memFn, memPtr, memSize, memNew, memI, memOld, memRet, memFail,
                   memCrashed, nonMemVars>>

\* ldvc_free: ::operator delete(object) and the return, which releases the
\* mutex; in ldvc_realloc the return of new_ptr follows
operator_delete ==
    /\ ~memCrashed
    /\ memPc = "f_del"
    /\ memHeld' = memHeld - 1
    /\ IF memPtr # NullPtr
       THEN heap' = [heap EXCEPT ![memPtr] =
                        [st |-> "freed", data |-> <<>>, frees |-> @.frees + 1]]
       ELSE UNCHANGED heap
    /\ memRet' = <<IF memFn = "realloc" THEN RetPtr(memNew) ELSE RetVoid>>
    /\ memPc' = "idle"
    /\ UNCHANGED <<memFn, memPtr, memSize, memNew, memI, memOld, memFail, memCrashed,
                   nonMemVars>>

NextMem ==
    \/ \E fn \in MemFns, b \in {NullPtr} \cup Blocks, n \in Sizes : mem_call(fn, b, n)
    \/ ldvc_malloc_lock
    \/ \E o \in NewOutcomes, d \in UNION {[1..n -> ElemVals] : n \in Sizes} : operator_new(o, d)
    \/ ldvc_calloc_zero
    \/ ldvc_realloc_test
    \/ \E u \in ReadOutcomes, v \in ElemVals : ldvc_realloc_copy(u, v)
    \/ ldvc_free_lock
    \/ operator_delete

(***************************************************************************)
(* Specifications                                                          *)
(***************************************************************************)
\* concurrent callers of the whole ldvc_atomic_* family on one guard
SpecAtomic == Init /\ [][NextAtomic]_vars

\* concurrent ldvc_atomic_inc / ldvc_atomic_dec after ldvc_atomic_create(var, mutex, 0)
SpecIncDec == Init /\ [][NextIncDec]_vars

\* tasks submitted through ldvc_async_execute and ldvc_async_execute_with_delay
SpecAsync == Init /\ [][NextAsync]_vars

\* submissions through any of the three ldvc_async_* functions
SpecSubmit == Init /\ [][NextSubmit]_vars

\* concurrent callers of the whole ldvc_atomic_* family under a fair scheduler
SpecMixed == InitMixed /\ [][NextBitwise]_vars

FairSpecAsync == Init /\ [][NextAsyncInTime]_vars /\ FairAsync

FairSpecAtomic == Init /\ [][NextAtomicOne]_vars /\ FairAtomic

\* ldvc_atomic_* called by threads that may already hold the mutex
SpecReentrant == Init /\ [][NextReentrant]_vars

\* thread_safe_increment and thread_safe_decrement run concurrently on the
\* variable and mutex of main()
SpecExample == Init /\ [][NextExample]_vars

\* ldvc_async_execute and ldvc_async_execute_with_timeout when thread
\* creation can fail
SpecSpawn == Init /\ [][NextSpawn]_vars

\* threads of one process that call the ldvc_*_ipc functions with one mutex
SpecIpc == Init /\ [][NextIpc]_vars

\* one caller of ldvc_malloc, ldvc_calloc, ldvc_realloc and ldvc_free
SpecMem == Init /\ [][NextMem]_vars

\* the calls of a fixed collection of bitwise operations, in every order
SpecBitwise == InitBitwise /\ [][NextBitwise]_vars

\* tasks submitted through ldvc_async_execute_with_timeout
SpecTimeout == Init /\ [][NextTimeout]_vars

(***************************************************************************)
(* Properties of ldvc_async_execute_with_timeout                           *)
(***************************************************************************)
TimeoutTasks == {k \in Tasks : kind[k] = "timeout"}

\* C1: a handle returned by execute_with_timeout that is resolved holds f's
\* outcome or TimedOut, no third outcome, and it was resolved only once.
C1_ExactlyOneOutcome ==
    \A k \in TimeoutTasks :
        (spc[k] = "returned" /\ Ready(k)) =>
            (st[k] \in {fout[k], TimedOut} /\ nset[k] = 1)

\* C2: once the worker and the timer have both made their write, the second
\* of the two writes has raised no error and has not terminated the process.
C2_LoserWriteIsNoOp ==
    \A k \in TimeoutTasks :
        (wpc[k] = "done" /\ tpc[k] = "done") => ~terminated

\* C6: when the timer has fired while f is still running, the handle holds
\* the TimedOut failure.
C6_TimedOutWhenTimerFiresFirst ==
    \A k \in TimeoutTasks :
        (tpc[k] = "done" /\ wpc[k] = "run") => st[k] = TimedOut

\* C7: when f has completed successfully and the worker has made its write
\* while the timer is still asleep, the handle holds f's value.
C7_ValueWhenWorkerFinishesFirst ==
    \A k \in TimeoutTasks :
        (fout[k].k = "value" /\ wpc[k] = "done" /\ tpc[k] = "sleep") => st[k] = fout[k]

\* C13: when the handle has resolved to TimedOut and the worker has then run
\* f to completion and made its write, the process is still running.
C13_WorkerOutlivesTimeout ==
    \A k \in TimeoutTasks :
        (st[k] = TimedOut /\ tpc[k] = "done" /\ wpc[k] = "done") => ~terminated

\* the state of a task in Pending -> Running -> {Completed, Failed, TimedOut}
TaskState(k) ==
    IF kind[k] = "none" THEN "None"
    ELSE IF st[k] = Empty THEN (IF wpc[k] = "sleep" THEN "Pending" ELSE "Running")
    ELSE IF st[k] = TimedOut THEN "TimedOut"
    ELSE IF st[k] = BrokenPromise THEN "BrokenPromise"
    ELSE IF st[k].k = "value" THEN "Completed"
    ELSE "Failed"

TaskStep(k, a, b) ==
    \/ a = b
    \/ a = "None" /\ b = (IF kind'[k] = "delay" THEN "Pending" ELSE "Running")
    \/ a = "Pending" /\ b = "Running"
    \/ a = "Running" /\ b \in {"Completed", "Failed", "TimedOut"}

\* C17: every task moves only along Pending -> Running -> {Completed,
\* Failed, TimedOut}: only a delayed task starts Pending, and Completed,
\* Failed and TimedOut are terminal.
C17_TaskStateMachine ==
    [][\A k \in Tasks : TaskStep(k, TaskState(k), TaskState(k)')]_vars

\* C18: once a task has failed (f has thrown and the worker has handled it,
\* or the timer has fired), no error has escaped a thread: the process has
\* not been terminated.
C18_FailureOnlyThroughHandle ==
    \A k \in TimeoutTasks :
        ((fout[k].k = "exc" /\ wpc[k] = "done") \/ tpc[k] = "done") => ~terminated

(***************************************************************************)
(* Properties of ldvc_atomic_*                                             *)
(***************************************************************************)
AllReturned == \A t \in Threads : pc[t] = "idle"

\* C3 as stated: after all inc / dec calls on a guard created with 0 have
\* returned, the value equals the sum of the increments minus the sum of the
\* decrements.
C3_SumOfDeltas == AllReturned => value = applied

\* C3 as amended: after all inc / dec calls on a guard created with 0 have
\* returned, the value equals the sum of the increments minus the sum of the
\* decrements reduced modulo 2^Width into the range of T.
C3_SumOfDeltasWrapped == AllReturned => value = Wrap(applied)

\* all calls were made and have returned, and the sum left the range of T
C3_Witness == AllReturned /\ calls = MaxCalls /\ applied > TMax

\* C4: an exchange that has done its swap and still holds the mutex has
\* returned the value the guard held when it acquired the mutex (the value
\* left by the preceding operation in lock order), and the guard holds its
\* new value: nothing came between the read and the write.
C4_ExchangeReturnsPrevious ==
    \A t \in Threads :
        (pc[t] = "unlock" /\ op[t] = "exchange") =>
            (ret[t] = <<atLock>> /\ value = arg[t] /\ holder = t)

\* an exchange has returned a value that differs from the one it stored,
\* while another thread is waiting for the mutex
C4_Witness ==
    \E t \in Threads :
        /\ pc[t] = "unlock" /\ op[t] = "exchange"
        /\ ret[t] # <<arg[t]>>
        /\ \E u \in Threads : u # t /\ pc[u] = "lock"

ExchangeStep(t) == pc[t] = "crit" /\ op[t] = "exchange" /\ pc'[t] = "unlock"

\* C5 as stated: exchange returns the value set by the most recent prior
\* store, exchange or create.
C5_ExchangeReturnsLastSet ==
    [][\A t \in Threads : ExchangeStep(t) => ret'[t] = <<lastSet>>]_vars

\* C5 as amended: exchange returns the value left by the most recent prior
\* operation of any kind; that is the value set by the most recent prior
\* store, exchange or create when no inc, dec, and, or, xor or delete came
\* after it. The guard is left holding the new value.
C5_ExchangeReturnsLastWritten ==
    [][\A t \in Threads : ExchangeStep(t) =>
            /\ ret'[t] = <<value>>
            /\ ~dirty => value = lastSet
            /\ value' = arg[t]]_vars

\* an exchange has returned a value that no store, exchange or create set
C5_Witness ==
    \E t \in Threads :
        /\ pc[t] = "unlock" /\ op[t] = "exchange"
        /\ ret[t] # <<>>
        /\ \A v \in Args \cup {0} : ret[t] # <<v>>

(***************************************************************************)
(* Properties of ldvc_async_execute and ldvc_async_execute_with_delay      *)
(***************************************************************************)
\* C8: when f returns normally, the handle of ldvc_async_execute is unready
\* while f runs, holds exactly f's value afterwards, was written once, and
\* get() yields that value.
C8_ExecuteYieldsValue ==
    \A k \in Tasks :
        (kind[k] = "execute" /\ fout[k].k = "value") =>
            /\ wpc[k] = "run" => (~Ready(k) /\ nset[k] = 0)
            /\ wpc[k] = "done" => (st[k] = fout[k] /\ nset[k] = 1)
            /\ got[k] # <<>> => got[k] = <<fout[k]>>

\* get() has returned the second of the possible values of f
C8_Witness ==
    \E k \in Tasks : kind[k] = "execute" /\ got[k] = <<Value("v2")>>

\* C9: when f throws, the handle of ldvc_async_execute holds that exception
\* once the worker is done, not a value and not nothing, the process has not
\* been terminated, and get() surfaces the exception.
C9_ExecutePropagatesFailure ==
    \A k \in Tasks :
        (kind[k] = "execute" /\ fout[k].k = "exc") =>
            /\ wpc[k] = "done" => (st[k] = fout[k] /\ nset[k] = 1 /\ ~terminated)
            /\ got[k] # <<>> => got[k] = <<fout[k]>>

\* get() has surfaced the exception that f threw
C9_Witness ==
    \E k \in Tasks : kind[k] = "execute" /\ got[k] = <<Exc("e1")>>

\* C10: the handle of execute_with_delay is not ready, and f not started,
\* until the delay has elapsed; the handle gets ready only when f has run.
C10_DelayNotReadyEarly ==
    \A k \in Tasks :
        kind[k] = "delay" =>
            /\ now < t0[k] + dur[k] => (~Ready(k) /\ wpc[k] = "sleep")
            /\ wpc[k] \in {"sleep", "run"} => ~Ready(k)
            /\ Ready(k) => wpc[k] = "done"

\* a task submitted after time 0 with the longer delay has become ready
C10_Witness ==
    \E k \in Tasks :
        kind[k] = "delay" /\ Ready(k) /\ t0[k] > 0 /\ dur[k] = 2

\* C14: a thread that is at its access to var, or has made it and not yet
\* released, is the holder of the mutex; there is at most one such thread,
\* and var changes only in a step of the holder.
C14_AccessOnlyByHolder ==
    /\ \A t \in Threads : pc[t] \in {"crit", "unlock"} => holder = t
    /\ Cardinality({t \in Threads : pc[t] \in {"crit", "unlock"}}) <= 1
    /\ holder # 0 => pc[holder] \in {"crit", "unlock"}

\* one thread is inside its critical section while another one waits
C14_Witness ==
    \E t, u \in Threads :
        /\ t # u
        /\ pc[t] = "crit" /\ holder = t /\ op[t] \in {"inc", "load"}
        /\ pc[u] = "lock"

\* what ldvc_atomic_<o>(var, mutex, a) leaves in var when run alone from v
SeqVal(o, a, v) ==
    CASE o = "create" -> a
      [] o = "delete" -> 0
      [] o = "inc" -> Wrap(v + a)
      [] o = "dec" -> Wrap(v - a)
      [] o = "and" -> fetch_and(v, a)
      [] o = "or" -> fetch_or(v, a)
      [] o = "xor" -> fetch_xor(v, a)
      [] o = "exchange" -> a
      [] o = "load" -> v
      [] o = "store" -> a

\* what ldvc_atomic_<o>(var, mutex, a) returns when run alone from v
SeqRet(o, a, v) == IF o \in {"exchange", "load"} THEN <<v>> ELSE <<>>

\* C15: the operations take effect one at a time in the order in which
\* they acquire the mutex: from acquisition to its access the holder sees
\* the value left by the previous holder, after its access var and the
\* returned value are those of the operation run alone from that value, and
\* var does not change between a release and the next acquisition.
C15_SequentialInLockOrder ==
    /\ [](\A t \in Threads :
            /\ (pc[t] = "crit" /\ holder = t) => value = atLock
            /\ (pc[t] = "unlock" /\ holder = t) =>
                    /\ value = SeqVal(op[t], arg[t], atLock)
                    /\ ret[t] = SeqRet(op[t], arg[t], atLock))
    /\ [][(holder = 0 \/ holder' = 0) => value' = value]_vars

\* an exchange has returned the value a previous operation left, while
\* another thread waits for the mutex
C15_Witness ==
    \E t, u \in Threads :
        /\ t # u
        /\ pc[t] = "unlock" /\ op[t] = "exchange"
        /\ atLock # 0 /\ ret[t] = <<atLock>> /\ value = arg[t]
        /\ pc[u] = "lock"

\* var after the calls c[1], ..., c[n] made one after the other from v
RECURSIVE ApplyInOrder(_, _, _)
ApplyInOrder(c, n, v) ==
    IF n = 0 THEN v
    ELSE ApplyBit(c[n][1], c[n][2], ApplyInOrder(c, n - 1, v))

BitAllDone == Len(bwDone) = Len(bwOps)

BitSameKind == \A i, j \in DOMAIN bwOps : bwOps[i][1] = bwOps[j][1]

\* C16 as stated: whatever the kinds and masks of the operations, every
\* order of applying them leaves the value that the listed order leaves.
C16_AnyOrderSameValue ==
    BitAllDone => bwVal = ApplyInOrder(bwOps, Len(bwOps), bwInit)

\* C16 amended: when the operations are all of one kind (all and, all or,
\* or all xor, with any masks), every order of applying them leaves the
\* value that the listed order leaves.
C16_SameKindAnyOrderSameValue ==
    (BitAllDone /\ BitSameKind) => bwVal = ApplyInOrder(bwOps, Len(bwOps), bwInit)

\* operations of one kind with different masks, applied last one first, on
\* a value that each of them changes
C16_Witness ==
    /\ Len(bwOps) >= 2 /\ BitAllDone /\ BitSameKind
    /\ bwOps[1][2] # bwOps[2][2]
    /\ bwDone[1] = Len(bwOps)
    /\ bwVal # bwInit

\* C19: a thread that is back from an ldvc_atomic_* call does not hold the
\* mutex, and under a fair scheduler every thread inside a call eventually
\* returns from it with the mutex released.
C19_StartedOperationReturns ==
    /\ [](\A t \in Threads : pc[t] = "idle" => holder # t)
    /\ \A t \in Threads : (pc[t] # "idle") ~> (pc[t] = "idle" /\ holder # t)

\* every call has been made and has returned, var was written, and the
\* mutex is free
C19_Witness ==
    /\ calls = MaxCalls
    /\ \A t \in Threads : pc[t] = "idle"
    /\ holder = 0
    /\ dirty /\ value # lastSet

\* C20: under a fair scheduler every thread that requests the mutex
\* eventually acquires it.
C20_RequesterAcquires ==
    \A t \in Threads : (pc[t] = "lock") ~> (pc[t] \in {"crit", "unlock"} /\ holder = t)

\* a thread has acquired the mutex after an earlier holder wrote var, while
\* another thread is waiting for it
C20_Witness ==
    \E t, u \in Threads :
        /\ t # u
        /\ pc[t] = "crit" /\ holder = t /\ atLock # 0 /\ calls = MaxCalls
        /\ pc[u] = "lock"

\* thread t is in an ldvc_atomic_* call made while it holds the mutex
Nested(t) == pc[t] = "lock" /\ holder = t

\* no ldvc_atomic_* function calls another one: a thread inside the guarded
\* section got the mutex from its lock_guard and cannot enter a second call
NoNestedCallInside ==
    \A t \in Threads :
        pc[t] \in {"crit", "unlock"} =>
            /\ ~outer[t]
            /\ \A o \in ArgOps \cup NoArgOps : ~ENABLED Call(t, o, 1)

\* C21 as stated: a call made by the thread that holds the mutex never
\* returns, and no ldvc_atomic_* function makes such a call itself.
C21_NestedCallNeverReturns ==
    /\ []NoNestedCallInside
    /\ [][\A t \in Threads : Nested(t) => pc'[t] # "idle"]_vars

\* C21 amended: a call made by the thread that holds the mutex never gets
\* the mutex and never reaches var: it blocks for ever, or it leaves the
\* function with std::system_error; no ldvc_atomic_* function makes such a
\* call itself.
C21_NestedCallNeverProceeds ==
    /\ []NoNestedCallInside
    /\ [](\A t \in Threads : pc[t] = "blocked" => holder = t)
    /\ [][\A t \in Threads :
            /\ pc[t] = "blocked" => pc'[t] = "blocked"
            /\ Nested(t) =>
                    /\ value' = value /\ holder' = holder /\ ret'[t] = <<>>
                    /\ pc'[t] \in {"lock", "blocked", "idle"}
                    /\ pc'[t] = "idle" => thrown'[t]]_vars

\* one thread is deadlocked in its nested call and another one has left
\* its nested call with std::system_error
C21_Witness ==
    \E t, u \in Threads :
        /\ t # u
        /\ pc[t] = "blocked" /\ holder = t /\ outer[t]
        /\ thrown[u] /\ pc[u] = "idle"

\* C22: after its access, create(v) and store(v) have left v in var,
\* delete has left 0, and load has returned the value var held when it got
\* the mutex (the value the previous operation left, v when that was a
\* create or store of v) and has left var as it was.
C22_StoreDeleteLoad ==
    \A t \in Threads :
        (pc[t] = "unlock" /\ holder = t) =>
            /\ op[t] \in {"create", "store"} => value = arg[t]
            /\ op[t] = "delete" => value = 0
            /\ op[t] = "load" =>
                    /\ ret[t] = <<atLock>>
                    /\ value = atLock
                    /\ ~dirty => ret[t] = <<lastSet>>

\* a load has returned the value a store or create wrote over another one
C22_Witness ==
    \E t \in Threads :
        /\ pc[t] = "unlock" /\ holder = t /\ op[t] = "load"
        /\ ~dirty /\ lastSet = TMax /\ ret[t] = <<TMax>>
        /\ applied # 0

\* C23: after its access, inc(delta) has left in var the value of T that is
\* congruent to old + delta modulo 2^w, and dec(delta) the one congruent to
\* old - delta.
C23_IncDecWrap ==
    \A t \in Threads :
        (pc[t] = "unlock" /\ holder = t) =>
            /\ value \in TMin..TMax
            /\ op[t] = "inc" => (value - (atLock + arg[t])) % TMod = 0
            /\ op[t] = "dec" => (value - (atLock - arg[t])) % TMod = 0

\* an increment past the maximum of T has wrapped to a negative value
C23_Witness ==
    \E t \in Threads :
        /\ pc[t] = "unlock" /\ holder = t /\ op[t] = "inc"
        /\ atLock + arg[t] > TMax
        /\ value < 0

\* C24: thread_safe_increment returns the value its own increment found
\* plus 1, thread_safe_decrement the value its own decrement found minus 1.
C24_ReturnsOwnResult ==
    \A t \in Threads :
        exPc[t] = "done" =>
            exRet[t] = <<exPrior[t] + (IF exFn[t] = "inc" THEN 1 ELSE -1)>>

(***************************************************************************)
(* Properties of the submitting thread                                     *)
(***************************************************************************)
\* C11: the submitting call never waits: an execute / execute_with_delay
\* task exists only with its call returned, each further step of
\* execute_with_timeout is possible whatever the worker and the timer do,
\* and once a call has returned the caller can submit the next task while
\* the earlier one is still pending or running.
C11_SubmitReturnsAtOnce ==
    \A k \in Tasks :
        ~terminated =>
            /\ kind[k] \in {"execute", "delay"} => spc[k] = "returned"
            /\ spc[k] = "worker" => ENABLED timeout_spawn_timer(k)
            /\ spc[k] = "timer" => ENABLED timeout_return(k)
            /\ (spc[k] = "returned" /\ k < NumTasks /\ kind[k + 1] = "none") =>
                    /\ ENABLED ldvc_async_execute(k + 1, Value("v1"))
                    /\ ENABLED ldvc_async_execute_with_delay(k + 1, 1, Value("v1"))
                    /\ k + 1 <= MaxTimeouts => ENABLED timeout_begin(k + 1, 1, Value("void"))

\* the call of execute_with_timeout and a later call of execute_with_delay
\* have both returned while f is still running, the timer still asleep and
\* the delayed task still pending
C11_Witness ==
    /\ kind[1] = "timeout" /\ spc[1] = "returned" /\ wpc[1] = "run" /\ tpc[1] = "sleep"
    /\ kind[2] = "delay" /\ spc[2] = "returned" /\ wpc[2] = "sleep"
    /\ ~terminated

\* C12: a caller that holds a handle it never waited on can destroy it
\* without being blocked.
C12_DiscardDoesNotBlock ==
    \A k \in Tasks :
        (spc[k] = "returned" /\ ~dropped[k] /\ got[k] = <<>> /\ ~terminated) =>
            ENABLED future_discard(k)

\* C25: when thread creation has failed in a submission, the process is
\* not terminated, and no worker or timer of that submission is still on its
\* way to the promise the failed call has destroyed.
C25_SpawnFailureIsClean ==
    \A k \in Tasks :
        spc[k] = "spawn_failed" =>
            /\ ~terminated
            /\ wpc[k] \in {"none", "done"}
            /\ tpc[k] \in {"none", "done"}

\* C30: a worker or timer that has not yet made its write attempt on the
\* promise finds the promise alive.
C30_PromiseOutlivesWriters ==
    \A k \in TimeoutTasks :
        (wpc[k] \in {"run", "fin"} \/ tpc[k] = "sleep") => PromiseAlive(k)

\* C31: the step in which ldvc_async_execute_with_timeout returns leaves
\* the shared state of the handle as it was: a handle that was not ready
\* before the return is not ready after it.
C31_ReturnDoesNotResolve ==
    [][\A k \in Tasks :
        (spc[k] = "timer" /\ spc'[k] = "returned") => st'[k] = st[k]]_vars

\* C32: the process does not end while a worker whose f has terminated, or
\* the timer of its task, still has its write attempt ahead: both make
\* their one attempt.
C32_TwoWriteAttempts ==
    \A k \in TimeoutTasks :
        (terminated /\ wpc[k] \in {"fin", "done"}) =>
            (wpc[k] = "done" /\ tpc[k] = "done")

\* C33: when f has thrown and the worker has handled it, the handle holds
\* f's failure if the timer has not fired yet, and f's failure or the
\* timeout error, with the process still running, if it has.
C33_FailureBeforeOrAfterTimer ==
    \A k \in TimeoutTasks :
        (fout[k].k = "exc" /\ wpc[k] = "done") =>
            /\ tpc[k] = "sleep" => st[k] = fout[k]
            /\ tpc[k] = "done" => (st[k] \in {fout[k], TimedOut} /\ ~terminated)

\* C34: a task submitted through ldvc_async_execute or
\* ldvc_async_execute_with_delay only moves forward (submitted, sleeping,
\* running, done) whatever the caller does with the handle, and its shared
\* state is written at most once; under fair scheduling there is a moment
\* from which on every submitted task has run f, once, and its handle is
\* ready with f's outcome, written exactly once.
C34_RunsOnceAndResolves ==
    /\ [](\A k \in Tasks : nset[k] <= 1)
    /\ [][\A k \in Tasks :
            wpc'[k] # wpc[k] =>
                <<wpc[k], wpc'[k]>> \in {<<"none", "run">>, <<"none", "sleep">>,
                                         <<"sleep", "run">>, <<"run", "done">>}]_vars
    /\ <>[](\A k \in Tasks :
              (kind[k] \in {"execute", "delay"}) =>
                  (wpc[k] = "done" /\ st[k] = fout[k] /\ nset[k] = 1))

C34_Witness ==
    /\ kind[1] = "execute" /\ dropped[1] /\ wpc[1] = "done" /\ nset[1] = 1
    /\ kind[2] = "delay" /\ wpc[2] = "done" /\ nset[2] = 1 /\ st[2] = fout[2]

\* C35: whether a delayed task can start depends on its own delay only: it
\* can start as soon as its own delay has passed and not before, and once
\* started it can finish, whatever the state of the other tasks.
C35_IndependentTimers ==
    \A k \in Tasks :
        (kind[k] = "delay" /\ ~terminated) =>
            /\ wpc[k] = "sleep" => (ENABLED delay_wake(k) <=> now >= t0[k] + dur[k])
            /\ wpc[k] = "run" => ENABLED delay_run(k)

\* a task with the shorter delay, submitted later, is resolved while the
\* earlier task with the longer delay still sleeps
C35_Witness ==
    /\ kind[1] = "delay" /\ kind[2] = "delay"
    /\ dur[2] < dur[1] /\ t0[2] >= t0[1]
    /\ wpc[1] = "sleep" /\ now < t0[1] + dur[1]
    /\ wpc[2] = "done" /\ Ready(2)

Perms(n) == {p \in [1..n -> 1..n] : \A i, j \in 1..n : i # j => p[i] # p[j]}

RECURSIVE ApplyPerm(_, _, _)
\* var after the first n calls of order p have run on v
ApplyPerm(p, n, v) ==
    IF n = 0 THEN v
    ELSE ApplyBit(bwOps[p[n]][1], bwOps[p[n]][2], ApplyPerm(p, n - 1, v))

\* the position in bwDone of the store or exchange that ran last
LastStore ==
    CHOOSE j \in DOMAIN bwDone :
        /\ bwOps[bwDone[j]][1] \in StoreKinds
        /\ \A i \in DOMAIN bwDone : i > j => bwOps[bwDone[i]][1] \notin StoreKinds

\* C36 as stated: whenever the set of operations mixes bitwise operations
\* with store or exchange, some other interleaving of the same set ends
\* with a value different from the one this interleaving ends with.
C36_MixedDependsOnOrder ==
    (BitAllDone /\ IsMixed(bwOps)) =>
        \E p \in Perms(Len(bwOps)) : ApplyPerm(p, Len(bwOps), bwInit) # bwVal

\* C36 amended: the final value of a mixed set is the argument of the store
\* or exchange that ran last, changed by the bitwise operations that ran
\* after it; so two interleavings of the same set can end with different
\* values, and they do whenever this value differs between them.
C36_LastStoreDecides ==
    (BitAllDone /\ IsMixed(bwOps)) =>
        bwVal = ApplyPerm([j \in 1..(Len(bwDone) - LastStore) |-> bwDone[LastStore + j]],
                          Len(bwDone) - LastStore,
                          bwOps[bwDone[LastStore]][2])

\* a mixed set whose run ends with a value different from the one the
\* listed order ends with: two interleavings, two final values
C36_Witness ==
    /\ BitAllDone
    /\ IsMixed(bwOps)
    /\ bwVal # ApplyInOrder(bwOps, Len(bwOps), bwInit)

(***************************************************************************)
(* Properties of ldvc_ipc.hpp                                              *)
(***************************************************************************)
\* C26: when ldvc_destroy_ipc has returned, it has returned true exactly if
\* the removal of the segment succeeded, and the thread does not hold the
\* mutex.
C26_DestroyReturnsSuccess ==
    \A t \in Threads :
        (ipcFn[t] = "destroy" /\ ipcRet[t] # <<>>) =>
            /\ ipcRet[t][1] = (ipcSys[t] = "ok")
            /\ ipcHolder # t

\* C27: when ldvc_detach_ipc has returned, the returned value is 0 if the
\* detach succeeded and -1 if it failed.
C27_DetachReturnsMinusOne ==
    \A t \in Threads :
        (ipcFn[t] = "detach" /\ ipcRet[t] # <<>>) =>
            ipcRet[t][1] = (IF ipcSys[t] = "ok" THEN 0 ELSE -1)

\* C39: when ldvc_create_ipc has returned, it has returned -1 if the key
\* derivation failed, the segment identifier if shmget succeeded and -1 if
\* shmget failed, and the thread does not hold the mutex; the step that
\* returns after a failed key derivation creates no segment.
C39_CreateReturns ==
    /\ [](\A t \in Threads :
            (ipcFn[t] = "create" /\ ipcRet[t] # <<>>) =>
                /\ ipcRet[t][1] = (IF ipcSys[t] = "ok" THEN Shmid ELSE -1)
                /\ ipcPc[t] = "idle"
                /\ ipcHolder # t)
    /\ [][\A t \in Threads :
            (ipcPc[t] = "crit" /\ ipcSys'[t] = "nokey") => ipcSeg' = ipcSeg]_vars

\* one call has returned -1 for a path without key and left no segment,
\* another has returned the identifier of the segment it created
C39_Witness ==
    \E t, u \in Threads :
        /\ ipcFn[t] = "create" /\ ipcSys[t] = "nokey" /\ ipcRet[t] = <<-1>>
        /\ ipcFn[u] = "create" /\ ipcSys[u] = "ok" /\ ipcRet[u] = <<Shmid>>
        /\ ipcHolder = 0

(***************************************************************************)
(* Properties of ldvc_mem.hpp                                              *)
(***************************************************************************)
\* the latest call was of fn and has handed a pointer back to its caller
MemReturned(fn) ==
    memPc = "idle" /\ memFn = fn /\ memRet # <<>> /\ memRet[1].k = "ptr"

Min(a, b) == IF a < b THEN a ELSE b

\* C28: a block that ldvc_calloc has returned holds num zeros; a call of
\* ldvc_realloc on a block does not crash, and when it has returned, the
\* new block starts with the elements of the old one and the old block has
\* been freed exactly once.
C28_CallocZeroReallocCopies ==
    /\ MemReturned("calloc") =>
            \A i \in 1..memSize : heap[memRet[1].p].data[i] = 0
    /\ memFn = "realloc" => ~memCrashed
    /\ (MemReturned("realloc") /\ memPtr # NullPtr) =>
            /\ memRet[1].p # memPtr
            /\ \A i \in 1..Min(Len(memOld), memSize) :
                    heap[memRet[1].p].data[i] = memOld[i]
            /\ heap[memPtr].st = "freed" /\ heap[memPtr].frees = 1

\* C29: when operator new has failed in a call, the call has handed
\* nullptr back to its caller, and ldvc_mem_mutx is not locked.
C29_AllocFailureReturnsNull ==
    (memPc = "idle" /\ memFail) =>
        /\ memRet = <<RetPtr(NullPtr)>>
        /\ memHeld = 0

C38_ReallocReadsInside ==
    (memPc = "r_copy" /\ memI < memSize) => memI < Len(heap[memPtr].data)

====
